---- MODULE Spec2Model ----
(***************************************************************************)
(* Model of the live streaming engine of xnoxs_fetcher:                    *)
(*   IntervalTracker and XnoxsLiveFeed   (xnoxs_fetcher/live_feed.py)      *)
(*   SymbolSet and DataConsumer          (xnoxs_fetcher/models.py)         *)
(*                                                                         *)
(* Threads: caller threads using the public API, the orchestrator threads  *)
(* running XnoxsLiveFeed._data_loop, and one thread per DataConsumer.      *)
(* Code that runs while XnoxsLiveFeed._lock is held is one step unless it  *)
(* performs a fetch; code that runs without the lock is split at every     *)
(* read or write of state that another thread can change.                  *)
(* A lookup made without the lock (find_symbol_set, `in`) reads the        *)
(* tracker at one instant.                                                 *)
(* Times are integers (one unit = one minute); None is -1 for times and 0  *)
(* for object references.                                                  *)
(***************************************************************************)
EXTENDS Integers, Sequences, FiniteSets, TLC

\* ------------------------------------------------------------------ bounds
MaxTime  == 2      \* the clock runs from 0 to MaxTime
MaxCalls == 3      \* API calls made in a run of Spec
MaxRaceCalls == 4  \* API calls made in a run of SpecRace

\* ------------------------------------------------------- program constants
RETRY_LIMIT == 50

None == -1         \* None where the code holds a datetime
NoRef == 0         \* None where the code holds an object reference
STOP == -1         \* the None sentinel in a consumer's queue

Callers == {1, 2}
\* (symbol, exchange, interval) triples the callers subscribe to
Keys == { <<"A", "X", "1">>, <<"B", "X", "1">>, <<"A", "X", "3">> }
RaceKeys == { <<"A", "X", "1">> }

\* fetch outcomes that are not a bar
NoData == -1       \* get_historical_data returned None
ParseRaise == -2   \* get_historical_data raised (parser error)

Free == <<"free", 0>>

VARIABLES
  now,          \* datetime.now()
  seis,         \* the SymbolSet instances created so far (by id)
  tracker,      \* the IntervalTracker of the feed
  main_thread,  \* XnoxsLiveFeed._main_thread (orchestrator id or NoRef)
  lock,         \* holder of XnoxsLiveFeed._lock
  orch,         \* the threads started with target _data_loop (by id)
  cons,         \* the DataConsumer threads created so far (by id)
  call,         \* per caller thread: the API call in progress and its result
  nCalls,       \* API calls started so far
  ret,          \* the call that returned or raised in the last step, if any
  stale,        \* history: the refresh that gave up last, its attempts and thread
  wsm,          \* a WebSocketManager and the threads that are inside its methods
  parse,        \* a call of XnoxsFetcher._parse_raw_data: its input and its result
  pool          \* a WebSocketPool and what its callers hold

\* the variables of the live feed
feedVars == <<now, seis, tracker, main_thread, lock, orch, cons, call, nCalls, ret, stale>>

vars == <<now, seis, tracker, main_thread, lock, orch, cons, call, nCalls, ret, stale, wsm,
         parse, pool>>

\* ----------------------------------------------------------- IntervalTracker

\* IntervalTracker._TIMEFRAME_DELTAS, in minutes
TIMEFRAME_DELTAS(iv) == CASE iv = "1" -> 1 [] iv = "3" -> 3

Interval(k) == k[3]

RECURSIVE Flatten(_)
Flatten(bs) == IF bs = <<>> THEN <<>> ELSE Head(bs).members \o Flatten(Tail(bs))

\* IntervalTracker.__iter__: all SymbolSets, bucket by bucket
AllSets(T) == Flatten(T.buckets)

\* IntervalTracker.__contains__ with SymbolSet.__eq__: equality is by key
Contains(T, k) == \E i \in 1..Len(AllSets(T)) : seis[AllSets(T)[i]].key = k

\* the second lookup left out
NeverRegistered(T, k) == FALSE

\* create_symbol_set, line 286: `if new_seis in self._tracker`, under the lock
AlreadyRegistered(T, k) == Contains(T, k)

\* a lookup that finds nothing
FindNothing(T, k) == NoRef

\* IntervalTracker.find_symbol_set: the first SymbolSet with this key
FindSymbolSet(T, k) ==
  IF Contains(T, k)
  THEN AllSets(T)[CHOOSE i \in 1..Len(AllSets(T)) :
                    /\ seis[AllSets(T)[i]].key = k
                    /\ \A j \in 1..(i-1) : seis[AllSets(T)[j]].key # k]
  ELSE NoRef

\* IntervalTracker.get_intervals
GetIntervals(T) == { T.buckets[i].iv : i \in 1..Len(T.buckets) }

BucketOf(T, iv) == CHOOSE i \in 1..Len(T.buckets) : T.buckets[i].iv = iv

\* the latest instead of the soonest trigger
LatestTrigger(T) ==
  IF Len(T.buckets) = 0 THEN None
  ELSE LET trigs == { T.buckets[i].trig : i \in 1..Len(T.buckets) }
       IN CHOOSE m \in trigs : \A x \in trigs : m >= x

\* IntervalTracker._calculate_next_trigger
CalculateNextTrigger(T) ==
  IF Len(T.buckets) = 0 THEN None
  ELSE LET trigs == { T.buckets[i].trig : i \in 1..Len(T.buckets) }
       IN CHOOSE m \in trigs : \A x \in trigs : m <= x

\* threading.Event.set: flag on, every blocked waiter is woken
EventSet(T) == [T EXCEPT !.interrupt_event = TRUE,
                         !.notified = @ \cup T.waiters,
                         !.waiters = {}]
\* threading.Event.clear
EventClear(T) == [T EXCEPT !.interrupt_event = FALSE]

\* IntervalTracker.request_shutdown
RequestShutdown(T) == EventSet([T EXCEPT !.shutdown_flag = TRUE])

\* IntervalTracker.add_symbol_set(seis, update_time)
AddSymbolSet(T, s, k, update_time) ==
  LET T1 == IF Len(T.buckets) > 0
            THEN EventClear([T EXCEPT !.shutdown_flag = FALSE])
            ELSE T
      iv == Interval(k)
  IN IF iv \in GetIntervals(T1)
     THEN [T1 EXCEPT !.buckets[BucketOf(T1, iv)].members = Append(@, s)]
     ELSE LET T2 == [T1 EXCEPT !.buckets =
                       Append(@, [iv |-> iv, members |-> <<s>>,
                                  trig |-> update_time + TIMEFRAME_DELTAS(iv)])]
              calc == CalculateNextTrigger(T2)
          IN IF calc # T2.next_trigger
             THEN EventSet([T2 EXCEPT !.next_trigger = calc])
             ELSE T2

\* list.remove(x): drops the first element equal to x (SymbolSet.__eq__)
RemoveFirst(members, k) ==
  LET i == CHOOSE j \in 1..Len(members) :
             /\ seis[members[j]].key = k
             /\ \A h \in 1..(j-1) : seis[members[h]].key # k
  IN SubSeq(members, 1, i-1) \o SubSeq(members, i+1, Len(members))

DropAt(sq, i) == SubSeq(sq, 1, i-1) \o SubSeq(sq, i+1, Len(sq))

\* a removal that keeps the interval group whatever is left in it
RemoveKeepGroup(T, k) ==
  LET b == BucketOf(T, Interval(k))
  IN [T EXCEPT !.buckets[b].members = RemoveFirst(@, k)]

\* IntervalTracker.remove_symbol_set(seis), for a seis that is `in` the tracker
RemoveSymbolSet(T, k) ==
  LET b == BucketOf(T, Interval(k))
      left == RemoveFirst(T.buckets[b].members, k)
  IN IF left # <<>>
     THEN [T EXCEPT !.buckets[b].members = left]
     ELSE LET T1 == [T EXCEPT !.buckets = DropAt(@, b)]
              calc == CalculateNextTrigger(T1)
          IN IF calc # T1.next_trigger /\ ~T1.shutdown_flag
             THEN EventSet([T1 EXCEPT !.next_trigger = calc])
             ELSE T1

\* due groups rescheduled one interval after the time of the call
ExpiredFromNow(T, t) ==
  [T EXCEPT !.buckets =
     [i \in 1..Len(T.buckets) |->
        IF t >= T.buckets[i].trig
        THEN [T.buckets[i] EXCEPT !.trig = t + TIMEFRAME_DELTAS(T.buckets[i].iv)]
        ELSE T.buckets[i]]]

\* IntervalTracker.get_expired_intervals: the buckets that are due, in dict
\* order, each with its trigger advanced by its interval
ExpiredIndexes(T, t) == { i \in 1..Len(T.buckets) : t >= T.buckets[i].trig }

GetExpiredIntervals(T, t) ==
  [T EXCEPT !.buckets =
     [i \in 1..Len(T.buckets) |->
        IF i \in ExpiredIndexes(T, t)
        THEN [T.buckets[i] EXCEPT !.trig = @ + TIMEFRAME_DELTAS(T.buckets[i].iv)]
        ELSE T.buckets[i]]]

RECURSIVE ExpiredMembers(_, _, _)
ExpiredMembers(T, t, i) ==
  IF i > Len(T.buckets) THEN <<>>
  ELSE (IF i \in ExpiredIndexes(T, t) THEN T.buckets[i].members ELSE <<>>)
       \o ExpiredMembers(T, t, i + 1)

\* ------------------------------------------------------------- SymbolSet

\* SymbolSet.__init__
NewSymbolSet(k) == [key |-> k, live_feed |-> TRUE, consumers |-> <<>>,
                    last_update |-> None]

\* a comparison that takes every bar for a new one
AlwaysNewData(last, ts) == TRUE

\* SymbolSet.is_new_data: the comparison (the caller stores ts when it is new)
IsNewData(last, ts) == last # ts

InSeq(x, sq) == \E i \in 1..Len(sq) : sq[i] = x

\* an unregistration that empties the list
UnregisterAll(cl, c) == <<>>

\* SymbolSet.unregister_consumer, for a consumer that is in the list
UnregisterConsumer(cl, c) ==
  DropAt(cl, CHOOSE i \in 1..Len(cl) : cl[i] = c /\ \A j \in 1..(i-1) : cl[j] # c)

\* ---------------------------------------------------------- DataConsumer

\* DataConsumer.__init__ and start(); owner is the SymbolSet it was made for
\* and, unlike symbol_set, is never set to None
NewConsumer(s, r) == [symbol_set |-> s, owner |-> s, raises |-> r, pc |-> "run",
                      queue |-> <<>>, enqueued |-> <<>>, delivered |-> <<>>]

\* a put at the head of the queue
PutFirst(C, c, item) == [C EXCEPT ![c].queue = <<item>> \o @,
                                  ![c].enqueued = Append(@, item)]

\* DataConsumer.enqueue / stop: queue.Queue.put
Put(C, c, item) == [C EXCEPT ![c].queue = Append(@, item),
                             ![c].enqueued = Append(@, item)]

RECURSIVE PutAll(_, _, _)
PutAll(C, cl, item) ==
  IF cl = <<>> THEN C ELSE PutAll(Put(C, Head(cl), item), Tail(cl), item)

\* the fields symbol_set, callback and _buffer are set to None together
BufferGone(c) == cons[c].symbol_set = NoRef

\* --------------------------------------------------------- fetch outcomes

\* timestamps (index[0]) a fetch made now can return
BarTimes == { t \in {now - 1, now} : t >= 0 }

\* what super().get_historical_data can do inside create_symbol_set
FetchOutcomes == BarTimes \cup {NoData, ParseRaise}

\* the attempt at which a refresh first sees something other than `dull`:
\* the first, the last, or none of its RETRY_LIMIT attempts
AttemptChoices == {1, RETRY_LIMIT, RETRY_LIMIT + 1}

\* What the upstream does during one refresh: attempt number n is the first
\* whose outcome is `final`; every other attempt yields `dull`, which is no
\* data or the bar already seen.
Scripts(last) ==
  [n : AttemptChoices,
   final : BarTimes \cup {ParseRaise},
   dull : {NoData} \cup (IF last # None THEN {last} ELSE {})]

OutcomeAt(script, attempt) ==
  IF attempt = script.n THEN script.final ELSE script.dull

\* the for/else retry loop of _data_loop for one SymbolSet; `attempt` counts
\* the attempts already made
RECURSIVE RefreshLoop(_, _, _)
RefreshLoop(last, script, attempt) ==
  IF attempt >= RETRY_LIMIT
  THEN [kind |-> "exhausted", attempts |-> attempt, ts |-> last]
  ELSE LET data == OutcomeAt(script, attempt + 1)
       IN IF data = ParseRaise
          THEN [kind |-> "raised", attempts |-> attempt + 1, ts |-> last]
          ELSE IF data # NoData /\ IsNewData(last, data)
               THEN [kind |-> "new", attempts |-> attempt + 1, ts |-> data]
               ELSE RefreshLoop(last, script, attempt + 1)

\* ------------------------------------------------------------------ Init

\* ------------------------------------------------------ WebSocketManager

max_reconnect_attempts == 3  \* WebSocketConfig.max_reconnect_attempts of the runs
reconnect_delay == 1         \* WebSocketConfig.reconnect_delay, in seconds

reconnect_delay_max == 30    \* WebSocketConfig.reconnect_delay_max, in seconds

\* WebSocketConfig.reconnect_delay_max of the runs: the default and a value
\* that the third delay reaches
DelayMaxChoices == {3, reconnect_delay_max}

MaxWsCalls == 3  \* calls made on the WebSocketManager in a run of SpecWs

\* the heartbeat thread and the threads that call the manager
HeartbeatThread == 0
WsThreads == {HeartbeatThread} \cup Callers

\* a thread that is in no method of the manager
WsIdle == [pc |-> "idle", op |-> "none", attempt |-> 0, tries |-> 0, delay |-> None]

\* no call has returned in the last step
WsNoRet == [t |-> None, op |-> "none", status |-> "none"]

\* WebSocketManager.__init__ with reconnect_delay_max = m
NewWebSocketManager(m) ==
  [state |-> "disconnected", ws |-> None, lock |-> None, reconnect_count |-> 0,
   stop_heartbeat |-> FALSE, reconnect_delay_max |-> m, opened |-> 0, calls |-> 0,
   th |-> [t \in WsThreads |-> WsIdle], last |-> WsNoRet,
   observed |-> [state |-> "none", locked |-> FALSE]]

\* _set_state, lines 109-120: the state is written and, when it differs from
\* the old one, the on_state_change callback is invoked with it; locked says
\* whether the calling method holds the lock around the call
SetState(w, new_state, locked) ==
  [w EXCEPT !.state = new_state,
            !.observed = IF w.state # new_state
                         THEN [state |-> new_state, locked |-> locked]
                         ELSE @]

Min(a, b) == IF a <= b THEN a ELSE b

\* reconnect, lines 191-194: the delay slept before attempt number attempt + 1
BackoffDelay(attempt, max) == Min(reconnect_delay * (2 ^ attempt), max)

\* one attempt more than the configuration allows
OneMoreAttempt(attempt) == attempt <= max_reconnect_attempts

\* reconnect, line 188: `for attempt in range(max_reconnect_attempts)`
MoreAttempts(attempt) == attempt < max_reconnect_attempts

\* ----------------------------------------- XnoxsFetcher._parse_raw_data

MaxRows == 2  \* rows in a response given to _parse_raw_data

\* the tokens re.split leaves in a row: "0" is a timestamp, "1" a price, "7"
\* a volume, "x" a token that is no number
IsFloat(tok) == tok \in {"0", "1", "7"}

\* float(tok) for a token that is a number
Float(tok) == CASE tok = "0" -> 0 [] tok = "1" -> 1 [] tok = "7" -> 7

\* the rows of the runs, as parts[4:]: the timestamp, open, high, low and
\* close, then the volume, a token that is no number, or nothing
Rows ==
  { <<"0", o, h, l, c>> \o v :
      o \in {"1", "x"}, h \in {"1", "x"}, l \in {"1", "x"}, c \in {"1", "x"},
      v \in {<<>>, <<"7">>, <<"x">>} }

\* the responses of the runs: one to MaxRows rows
Responses == UNION { [1..n -> Rows] : n \in 1..MaxRows }

\* _parse_raw_data, lines 326-335: the fields parts[idx] .. parts[9] of one
\* row are added to record; parts is the row from parts[4] on, so parts[idx]
\* of the code is parts[idx - 3] here
RECURSIVE ParseFields(_, _, _, _)
ParseFields(parts, idx, has_volume, record) ==
  IF idx > 9 THEN [record |-> record, has_volume |-> has_volume]
  ELSE IF ~has_volume /\ idx = 9
  THEN ParseFields(parts, idx + 1, has_volume, Append(record, 0))
  ELSE IF idx - 3 > Len(parts) \/ ~IsFloat(parts[idx - 3])
  THEN ParseFields(parts, idx + 1, FALSE, Append(record, 0))
  ELSE ParseFields(parts, idx + 1, has_volume, Append(record, Float(parts[idx - 3])))

\* a row parsed with has_volume set anew
ParseRowAnew(parts, has_volume) ==
  ParseFields(parts, 5, TRUE, <<Float(parts[1])>>)

\* _parse_raw_data, lines 323-335: one pass of `for row in rows`
ParseRow(parts, has_volume) ==
  ParseFields(parts, 5, has_volume, <<Float(parts[1])>>)

\* _parse_raw_data, lines 319-337: the records of the rows, in order
RECURSIVE ParseRows(_, _, _)
ParseRows(rows, has_volume, parsed_data) ==
  IF rows = <<>> THEN parsed_data
  ELSE LET r == ParseRow(Head(rows), has_volume)
       IN ParseRows(Tail(rows), r.has_volume, Append(parsed_data, r.record))

\* _parse_raw_data for a response with these rows: the records of the
\* DataFrame, each <<datetime, open, high, low, close, volume>>
ParseRawData(rows) == ParseRows(rows, TRUE, <<>>)

\* no call of _parse_raw_data
NoParse == [rows |-> <<>>, df |-> <<>>, returned |-> FALSE]

\* --------------------------------------------------------- WebSocketPool

pool_size == 2     \* WebSocketPool pool_size of the runs
MaxPoolCalls == 5  \* acquire and release calls made in a run of SpecPool

\* WebSocketPool.__init__, lines 384-401; held and known are what each
\* caller has been given by acquire and not released, and has ever been given
NewWebSocketPool ==
  [connections |-> <<>>, available |-> <<>>, calls |-> 0,
   held |-> [t \in Callers |-> {}], known |-> [t \in Callers |-> {}],
   last |-> [t |-> None, op |-> "none", ws |-> None]]

NoStale == [attempts |-> 0, by |-> NoRef]

Idle == [pc |-> "idle", key |-> <<>>, h |-> NoRef, raises |-> FALSE]

NoRet == [t |-> 0, op |-> "none", key |-> <<>>, h |-> NoRef,
          status |-> "none", val |-> NoRef]

Init ==
  /\ now = 0
  /\ seis = <<>>
  /\ tracker = [buckets |-> <<>>, shutdown_flag |-> FALSE, next_trigger |-> None,
                interrupt_event |-> FALSE, waiters |-> {}, notified |-> {}]
  /\ main_thread = NoRef
  /\ lock = Free
  /\ orch = <<>>
  /\ cons = <<>>
  /\ call = [t \in Callers |-> Idle]
  /\ nCalls = 0
  /\ ret = NoRet
  /\ stale = NoStale
  /\ wsm = NewWebSocketManager(reconnect_delay_max)
  /\ parse = NoParse
  /\ pool = NewWebSocketPool

\* the clock advances
Tick ==
  /\ now < MaxTime
  /\ now' = now + 1
  /\ ret' = NoRet
  /\ UNCHANGED <<seis, tracker, main_thread, lock, orch, cons, call, nCalls, stale, wsm, parse, pool>>

\* --------------------------------------------- caller threads: subscribe

\* caller t goes on to position pc of its call
At(t, pc, k, h, r) ==
  [call EXCEPT ![t] = [pc |-> pc, key |-> k, h |-> h, raises |-> r]]

\* the call of caller t returns val (status "ok", "found", "created") or
\* raises (status names the exception)
Return(t, op, k, h, status, val) ==
  /\ call' = [call EXCEPT ![t] = Idle]
  /\ ret' = [t |-> t, op |-> op, key |-> k, h |-> h, status |-> status, val |-> val]

Goes(t, pc, k, h, r) ==
  /\ call' = At(t, pc, k, h, r)
  /\ ret' = NoRet

\* _data_loop thread object, not yet run
NewOrch == [pc |-> "w_check", work |-> <<>>, wake_at |-> None]

\* create_symbol_set, lines 273-277: the lookup made without the lock
CreateSymbolSet_Find(t, k, max) ==
  /\ call[t].pc = "idle"
  /\ nCalls < max
  /\ nCalls' = nCalls + 1
  /\ LET existing == FindSymbolSet(tracker, k)
     IN IF existing # NoRef
        THEN Return(t, "subscribe", k, NoRef, "found", existing)
        ELSE Goes(t, "s_lock", k, NoRef, FALSE)
  /\ UNCHANGED <<now, seis, tracker, main_thread, lock, orch, cons, stale, wsm, parse, pool>>

\* create_symbol_set, lines 279-303, up to the fetch: lock taken, second
\* lookup, registration in an existing interval group
CreateSymbolSet_Locked(t) ==
  /\ call[t].pc = "s_lock"
  /\ lock = Free
  /\ LET k == call[t].key
         s == Len(seis) + 1
     IN IF AlreadyRegistered(tracker, k)
        THEN /\ Return(t, "subscribe", k, NoRef, "found", FindSymbolSet(tracker, k))
             /\ UNCHANGED <<seis, tracker, lock>>
        ELSE IF Interval(k) \notin GetIntervals(tracker)
        THEN /\ lock' = <<"caller", t>>
             /\ Goes(t, "s_fetch", k, NoRef, FALSE)
             /\ UNCHANGED <<seis, tracker>>
        ELSE /\ seis' = Append(seis, NewSymbolSet(k))
             /\ tracker' = AddSymbolSet(tracker, s, k, None)
             /\ Goes(t, "s_thread", k, s, FALSE)
             /\ UNCHANGED lock
  /\ UNCHANGED <<now, main_thread, orch, cons, nCalls, stale, wsm, parse, pool>>

\* the same steps without the finally clause: a failed fetch keeps the lock
CreateSymbolSet_FetchedNoFinally(t, out) ==
  /\ call[t].pc = "s_fetch"
  /\ out \in FetchOutcomes
  /\ lock' = IF out >= 0 THEN Free ELSE lock
  /\ LET k == call[t].key
         s == Len(seis) + 1
     IN IF out >= 0
        THEN /\ seis' = Append(seis, NewSymbolSet(k))
             /\ tracker' = AddSymbolSet(tracker, s, k, out)
             /\ Goes(t, "s_thread", k, s, FALSE)
        ELSE /\ Return(t, "subscribe", k, NoRef,
                       IF out = NoData THEN "AttributeError" ELSE "ParseError", NoRef)
             /\ UNCHANGED <<seis, tracker>>
  /\ UNCHANGED <<now, main_thread, orch, cons, nCalls, stale, wsm, parse, pool>>

\* create_symbol_set, lines 292-303: the initial fetch returns (or fails),
\* the new interval group is added, the lock is released
CreateSymbolSet_Fetched(t, out) ==
  /\ call[t].pc = "s_fetch"
  /\ out \in FetchOutcomes
  /\ lock' = Free
  /\ LET k == call[t].key
         s == Len(seis) + 1
     IN IF out >= 0
        THEN /\ seis' = Append(seis, NewSymbolSet(k))
             /\ tracker' = AddSymbolSet(tracker, s, k, out)
             /\ Goes(t, "s_thread", k, s, FALSE)
        ELSE /\ Return(t, "subscribe", k, NoRef,
                       IF out = NoData THEN "AttributeError" ELSE "ParseError", NoRef)
             /\ UNCHANGED <<seis, tracker>>
  /\ UNCHANGED <<now, main_thread, orch, cons, nCalls, stale, wsm, parse, pool>>

\* create_symbol_set, line 305: `if self._main_thread is None`
CreateSymbolSet_CheckThread(t) ==
  /\ call[t].pc = "s_thread"
  /\ IF main_thread = NoRef
     THEN Goes(t, "s_start", call[t].key, call[t].h, FALSE)
     ELSE Return(t, "subscribe", call[t].key, NoRef, "created", call[t].h)
  /\ UNCHANGED <<now, seis, tracker, main_thread, lock, orch, cons, nCalls, stale, wsm, parse, pool>>

\* create_symbol_set, lines 306-313: the orchestrator thread is started
CreateSymbolSet_StartThread(t) ==
  /\ call[t].pc = "s_start"
  /\ orch' = Append(orch, NewOrch)
  /\ main_thread' = Len(orch) + 1
  /\ Return(t, "subscribe", call[t].key, NoRef, "created", call[t].h)
  /\ UNCHANGED <<now, seis, tracker, lock, cons, nCalls, stale, wsm, parse, pool>>

\* ------------------------------------------- caller threads: unsubscribe

\* remove_symbol_set, lines 330-331: the membership test made without the lock
RemoveSymbolSet_Check(t, s, max) ==
  /\ call[t].pc = "idle"
  /\ nCalls < max
  /\ s \in 1..Len(seis)
  /\ nCalls' = nCalls + 1
  /\ IF ~Contains(tracker, seis[s].key)
     THEN Return(t, "unsubscribe", <<>>, s, "ValueError", NoRef)
     ELSE Goes(t, "u_lock", <<>>, s, FALSE)
  /\ UNCHANGED <<now, seis, tracker, main_thread, lock, orch, cons, stale, wsm, parse, pool>>

\* the consumers of cl that consumer.enqueue(None) reaches: all of them, or
\* those before the first one whose _buffer is None (AttributeError)
RECURSIVE Reached(_)
Reached(cl) ==
  IF cl = <<>> \/ BufferGone(Head(cl)) THEN <<>>
  ELSE <<Head(cl)>> \o Reached(Tail(cl))

\* remove_symbol_set, lines 333-349, with the lock held
RemoveSymbolSet_Locked(t) ==
  /\ call[t].pc = "u_lock"
  /\ lock = Free
  /\ LET s == call[t].h
         k == seis[s].key
         cl == seis[s].consumers
         T1 == RemoveSymbolSet(tracker, k)
     IN /\ cons' = PutAll(cons, Reached(cl), STOP)
        /\ IF Reached(cl) # cl
           THEN /\ Return(t, "unsubscribe", <<>>, s, "AttributeError", NoRef)
                /\ UNCHANGED <<seis, tracker>>
           ELSE IF ~Contains(tracker, k)
           THEN /\ Return(t, "unsubscribe", <<>>, s, "KeyError", NoRef)
                /\ UNCHANGED <<seis, tracker>>
           ELSE /\ seis' = [seis EXCEPT ![s].live_feed = FALSE]
                /\ tracker' = IF Len(T1.buckets) = 0 THEN RequestShutdown(T1) ELSE T1
                /\ Return(t, "unsubscribe", <<>>, s, "ok", NoRef)
  /\ UNCHANGED <<now, main_thread, lock, orch, nCalls, stale, wsm, parse, pool>>

\* ------------------------------------- caller threads: attach and detach

\* create_consumer, lines 368-371: the membership test made without the lock
CreateConsumer_Check(t, s, r, max) ==
  /\ call[t].pc = "idle"
  /\ nCalls < max
  /\ s \in 1..Len(seis)
  /\ nCalls' = nCalls + 1
  /\ IF ~Contains(tracker, seis[s].key)
     THEN Return(t, "attach", <<>>, s, "ValueError", NoRef)
     ELSE Goes(t, "a_lock", <<>>, s, r)
  /\ UNCHANGED <<now, seis, tracker, main_thread, lock, orch, cons, stale, wsm, parse, pool>>

\* create_consumer, lines 373-383, with the lock held
CreateConsumer_Locked(t) ==
  /\ call[t].pc = "a_lock"
  /\ lock = Free
  /\ LET s == call[t].h
         c == Len(cons) + 1
     IN /\ cons' = Append(cons, NewConsumer(s, call[t].raises))
        /\ seis' = [seis EXCEPT ![s].consumers = Append(@, c)]
        /\ Return(t, "attach", <<>>, s, "ok", c)
  /\ UNCHANGED <<now, tracker, main_thread, lock, orch, nCalls, stale, wsm, parse, pool>>

\* remove_consumer, lines 400-410 (the call takes effect when it gets the lock)
RemoveConsumer(t, c, max) ==
  /\ call[t].pc = "idle"
  /\ nCalls < max
  /\ c \in 1..Len(cons)
  /\ lock = Free
  /\ nCalls' = nCalls + 1
  /\ LET s == cons[c].symbol_set
     IN IF s = NoRef
        THEN /\ Return(t, "detach", <<>>, c, "AttributeError", NoRef)
             /\ UNCHANGED <<seis, cons>>
        ELSE IF ~InSeq(c, seis[s].consumers)
        THEN /\ Return(t, "detach", <<>>, c, "ValueError", NoRef)
             /\ UNCHANGED <<seis, cons>>
        ELSE /\ seis' = [seis EXCEPT ![s].consumers = UnregisterConsumer(@, c)]
             /\ cons' = Put(cons, c, STOP)
             /\ Return(t, "detach", <<>>, c, "ok", NoRef)
  /\ UNCHANGED <<now, tracker, main_thread, lock, orch, stale, wsm, parse, pool>>

\* ---------------------------------------------- caller threads: shutdown

\* shutdown, line 483: `if self._main_thread is not None`
Shutdown_Check(t, max) ==
  /\ call[t].pc = "idle"
  /\ nCalls < max
  /\ nCalls' = nCalls + 1
  /\ IF main_thread = NoRef
     THEN Return(t, "shutdown", <<>>, NoRef, "ok", NoRef)
     ELSE Goes(t, "sd_lock", <<>>, NoRef, FALSE)
  /\ UNCHANGED <<now, seis, tracker, main_thread, lock, orch, cons, stale, wsm, parse, pool>>

\* shutdown, lines 484-485: request_shutdown with the lock held
Shutdown_Request(t) ==
  /\ call[t].pc = "sd_lock"
  /\ lock = Free
  /\ tracker' = RequestShutdown(tracker)
  /\ Goes(t, "sd_join", <<>>, NoRef, FALSE)
  /\ UNCHANGED <<now, seis, main_thread, lock, orch, cons, nCalls, stale, wsm, parse, pool>>

\* shutdown, line 486: self._main_thread is read again for join()
Shutdown_Join(t) ==
  /\ call[t].pc = "sd_join"
  /\ IF main_thread = NoRef
     THEN Return(t, "shutdown", <<>>, NoRef, "AttributeError", NoRef)
     ELSE Goes(t, "sd_wait", <<>>, main_thread, FALSE)
  /\ UNCHANGED <<now, seis, tracker, main_thread, lock, orch, cons, nCalls, stale, wsm, parse, pool>>

Terminated(o) == orch[o].pc \in {"dead", "crashed"}

\* Thread.join returns once the joined thread has ended
Shutdown_Joined(t) ==
  /\ call[t].pc = "sd_wait"
  /\ Terminated(call[t].h)
  /\ Return(t, "shutdown", <<>>, call[t].h, "ok", NoRef)
  /\ UNCHANGED <<now, seis, tracker, main_thread, lock, orch, cons, nCalls, stale, wsm, parse, pool>>

\* ------------------------------- orchestrator threads: wait_for_trigger

SetOrch(o, pc) == [orch EXCEPT ![o].pc = pc, ![o].wake_at = None]

\* wait_for_trigger, lines 92-95 when the shutdown flag is read as set: no
\* clear, _next_trigger is recomputed
\* wait_for_trigger, line 92 when it is read as not set: clear() comes next
Wait_CheckFlag(o) ==
  /\ orch[o].pc = "w_check"
  /\ IF tracker.shutdown_flag
     THEN /\ tracker' = [tracker EXCEPT !.next_trigger = CalculateNextTrigger(tracker)]
          /\ orch' = SetOrch(o, "w_wait")
     ELSE /\ orch' = SetOrch(o, "w_clear")
          /\ UNCHANGED tracker
  /\ ret' = NoRet
  /\ UNCHANGED <<now, seis, main_thread, lock, cons, call, nCalls, stale, wsm, parse, pool>>

\* wait_for_trigger, lines 93-95: clear(), _next_trigger is recomputed
Wait_Clear(o) ==
  /\ orch[o].pc = "w_clear"
  /\ tracker' = [EventClear(tracker) EXCEPT
                   !.next_trigger = CalculateNextTrigger(tracker)]
  /\ orch' = SetOrch(o, "w_wait")
  /\ ret' = NoRet
  /\ UNCHANGED <<now, seis, main_thread, lock, cons, call, nCalls, stale, wsm, parse, pool>>

\* wait_for_trigger, lines 102-107: where the loop goes after Event.wait
\* returned `interrupted`
AfterWait(interrupted, flag) ==
  IF interrupted /\ flag THEN "t_lock"        \* return False
  ELSE IF ~interrupted THEN "w_tclear"        \* clear, break, return True
  ELSE "w_wait"                               \* next iteration

\* wait_for_trigger, lines 98-100: the wait duration is computed (TypeError
\* when _next_trigger is None) and Event.wait is entered; it returns at once
\* when the event is set or the duration is not positive
Wait_Enter(o) ==
  /\ orch[o].pc = "w_wait"
  /\ IF tracker.next_trigger = None
     THEN /\ orch' = SetOrch(o, "crashed")
          /\ UNCHANGED tracker
     ELSE IF tracker.interrupt_event
     THEN /\ orch' = SetOrch(o, AfterWait(TRUE, tracker.shutdown_flag))
          /\ UNCHANGED tracker
     ELSE IF tracker.next_trigger - now <= 0
     THEN /\ orch' = SetOrch(o, AfterWait(FALSE, tracker.shutdown_flag))
          /\ UNCHANGED tracker
     ELSE /\ orch' = [orch EXCEPT ![o].pc = "w_blocked",
                                  ![o].wake_at = tracker.next_trigger]
          /\ tracker' = [tracker EXCEPT !.waiters = @ \cup {o}]
  /\ ret' = NoRet
  /\ UNCHANGED <<now, seis, main_thread, lock, cons, call, nCalls, stale, wsm, parse, pool>>

\* Event.wait returns True after a set() that found the thread waiting
Wait_Notified(o) ==
  /\ orch[o].pc = "w_blocked"
  /\ o \in tracker.notified
  /\ tracker' = [tracker EXCEPT !.notified = @ \ {o}]
  /\ orch' = SetOrch(o, AfterWait(TRUE, tracker.shutdown_flag))
  /\ ret' = NoRet
  /\ UNCHANGED <<now, seis, main_thread, lock, cons, call, nCalls, stale, wsm, parse, pool>>

\* Event.wait returns False when the duration has elapsed
Wait_Timeout(o) ==
  /\ orch[o].pc = "w_blocked"
  /\ o \in tracker.waiters
  /\ now >= orch[o].wake_at
  /\ tracker' = [tracker EXCEPT !.waiters = @ \ {o}]
  /\ orch' = SetOrch(o, AfterWait(FALSE, tracker.shutdown_flag))
  /\ ret' = NoRet
  /\ UNCHANGED <<now, seis, main_thread, lock, cons, call, nCalls, stale, wsm, parse, pool>>

\* wait_for_trigger, lines 105-109: clear after a timeout, return True
Wait_TimeoutClear(o) ==
  /\ orch[o].pc = "w_tclear"
  /\ tracker' = EventClear(tracker)
  /\ orch' = SetOrch(o, "o_lock")
  /\ ret' = NoRet
  /\ UNCHANGED <<now, seis, main_thread, lock, cons, call, nCalls, stale, wsm, parse, pool>>

\* ------------------------------------- orchestrator threads: _data_loop

\* _data_loop, lines 415-417: the lock is taken and the due interval groups
\* are drained; work is the SymbolSets the two for loops will visit
DataLoop_Lock(o) ==
  /\ orch[o].pc = "o_lock"
  /\ lock = Free
  /\ LET work == ExpiredMembers(tracker, now, 1)
     IN /\ tracker' = GetExpiredIntervals(tracker, now)
        /\ IF work = <<>>
           THEN /\ orch' = SetOrch(o, "w_check")
                /\ UNCHANGED lock
           ELSE /\ orch' = [orch EXCEPT ![o].pc = "o_loop", ![o].work = work]
                /\ lock' = <<"orch", o>>
  /\ ret' = NoRet
  /\ UNCHANGED <<now, seis, main_thread, cons, call, nCalls, stale, wsm, parse, pool>>

\* _data_loop, lines 418-441: the refresh of one SymbolSet, all its attempts
DataLoop_Refresh(o, script) ==
  /\ orch[o].pc = "o_loop"
  /\ LET s == Head(orch[o].work)
         cl == seis[s].consumers
         r == RefreshLoop(seis[s].last_update, script, 0)
         more == Tail(orch[o].work) # <<>>
         after == [orch EXCEPT ![o].pc = IF more THEN "o_loop" ELSE "w_check",
                               ![o].work = Tail(@)]
     IN /\ script \in Scripts(seis[s].last_update)
        /\ CASE r.kind = "raised" ->
                  /\ orch' = [orch EXCEPT ![o].pc = "crashed", ![o].work = <<>>]
                  /\ lock' = Free
                  /\ UNCHANGED <<seis, cons, tracker, stale>>
             [] r.kind = "exhausted" ->
                  /\ tracker' = RequestShutdown(tracker)
                  /\ stale' = [attempts |-> r.attempts, by |-> o]
                  /\ orch' = after
                  /\ lock' = IF more THEN lock ELSE Free
                  /\ UNCHANGED <<seis, cons>>
             [] r.kind = "new" ->
                  /\ seis' = [seis EXCEPT ![s].last_update = r.ts]
                  /\ cons' = PutAll(cons, Reached(cl), r.ts)
                  /\ IF Reached(cl) # cl
                     THEN /\ orch' = [orch EXCEPT ![o].pc = "crashed",
                                                  ![o].work = <<>>]
                          /\ lock' = Free
                     ELSE /\ orch' = after
                          /\ lock' = IF more THEN lock ELSE Free
                  /\ UNCHANGED <<tracker, stale>>
  /\ ret' = NoRet
  /\ UNCHANGED <<now, main_thread, call, nCalls, wsm, parse, pool>>

\* a teardown that visits nothing
TeardownNothing(st, ss) == st

\* _data_loop, lines 444-449: the SymbolSets of ss are torn down in turn;
\* consumer.stop() on a consumer whose _buffer is None ends it (ok = FALSE)
RECURSIVE TeardownFold(_, _)
TeardownFold(st, ss) ==
  IF ss = <<>> THEN st
  ELSE LET s == Head(ss)
           cl == st.S[s].consumers
           r == Reached(cl)
       IN IF r # cl
          THEN [st EXCEPT !.C = PutAll(@, r, STOP),
                          !.S[s].consumers = SubSeq(cl, Len(r) + 2, Len(cl)),
                          !.ok = FALSE]
          ELSE TeardownFold([st EXCEPT !.C = PutAll(@, cl, STOP),
                                       !.S[s].consumers = <<>>,
                                       !.T = RemoveSymbolSet(@, seis[s].key)],
                            Tail(ss))

\* _data_loop, lines 443-451, with the lock held
Teardown(o) ==
  /\ orch[o].pc = "t_lock"
  /\ lock = Free
  /\ LET r == TeardownFold([T |-> tracker, S |-> seis, C |-> cons, ok |-> TRUE],
                           AllSets(tracker))
     IN /\ tracker' = r.T
        /\ seis' = r.S
        /\ cons' = r.C
        /\ orch' = SetOrch(o, IF r.ok THEN "dead" ELSE "crashed")
        /\ main_thread' = IF r.ok THEN NoRef ELSE main_thread
  /\ ret' = NoRet
  /\ UNCHANGED <<now, lock, call, nCalls, stale, wsm, parse, pool>>

\* ------------------------------------------------------ consumer threads

\* DataConsumer.run, lines 301-308 and 316-318: one item is taken from the
\* queue; the sentinel ends the thread, a batch is passed to the callback
Consumer_Get(c) ==
  /\ cons[c].pc = "run"
  /\ cons[c].queue # <<>>
  /\ LET data == Head(cons[c].queue)
     IN cons' = IF data = STOP
                THEN [cons EXCEPT ![c].queue = Tail(@), ![c].pc = "stopped",
                                  ![c].symbol_set = NoRef]
                ELSE [cons EXCEPT ![c].queue = Tail(@),
                                  ![c].delivered = Append(@, data),
                                  ![c].pc = IF cons[c].raises THEN "failed" ELSE "run"]
  /\ ret' = NoRet
  /\ UNCHANGED <<now, seis, tracker, main_thread, lock, orch, call, nCalls, stale, wsm, parse, pool>>

\* DataConsumer.run, line 310 -> SymbolSet.remove_consumer, lines 169-171:
\* RuntimeError when the SymbolSet has no live feed
Consumer_Remove(c) ==
  /\ cons[c].pc = "failed"
  /\ cons' = [cons EXCEPT ![c].pc =
                IF seis[cons[c].symbol_set].live_feed THEN "removing" ELSE "died"]
  /\ ret' = NoRet
  /\ UNCHANGED <<now, seis, tracker, main_thread, lock, orch, call, nCalls, stale, wsm, parse, pool>>

\* XnoxsLiveFeed.remove_consumer, lines 400-410, called by the consumer
\* thread itself, then DataConsumer.run, lines 311-314
Consumer_RemoveLocked(c) ==
  /\ cons[c].pc = "removing"
  /\ lock = Free
  /\ LET s == cons[c].symbol_set
     IN IF ~InSeq(c, seis[s].consumers)
        THEN /\ cons' = [cons EXCEPT ![c].pc = "died"]
             /\ UNCHANGED seis
        ELSE /\ seis' = [seis EXCEPT ![s].consumers = UnregisterConsumer(@, c)]
             /\ cons' = [Put(cons, c, STOP) EXCEPT ![c].pc = "died",
                                                   ![c].symbol_set = NoRef]
  /\ ret' = NoRet
  /\ UNCHANGED <<now, tracker, main_thread, lock, orch, call, nCalls, stale, wsm, parse, pool>>

\* ------------------------------------------------------------------ Next

\* the steps of the caller threads in T, which subscribe to the keys in K and
\* start at most max calls between them
CallerStep(T, K, max) ==
  \E t \in T :
    \/ \E k \in K : CreateSymbolSet_Find(t, k, max)
    \/ CreateSymbolSet_Locked(t)
    \/ \E out \in FetchOutcomes : CreateSymbolSet_Fetched(t, out)
    \/ CreateSymbolSet_CheckThread(t)
    \/ CreateSymbolSet_StartThread(t)
    \/ \E s \in 1..Len(seis) : RemoveSymbolSet_Check(t, s, max)
    \/ RemoveSymbolSet_Locked(t)
    \/ \E s \in 1..Len(seis), r \in BOOLEAN : CreateConsumer_Check(t, s, r, max)
    \/ CreateConsumer_Locked(t)
    \/ \E c \in 1..Len(cons) : RemoveConsumer(t, c, max)
    \/ Shutdown_Check(t, max)
    \/ Shutdown_Request(t)
    \/ Shutdown_Join(t)
    \/ Shutdown_Joined(t)

OrchStep ==
  \E o \in 1..Len(orch) :
    \/ Wait_CheckFlag(o)
    \/ Wait_Clear(o)
    \/ Wait_Enter(o)
    \/ Wait_Notified(o)
    \/ Wait_TimeoutClear(o)
    \/ DataLoop_Lock(o)
    \/ \E n \in AttemptChoices, f \in BarTimes \cup {ParseRaise},
          d \in {NoData} \cup {seis[i].last_update : i \in 1..Len(seis)} :
         DataLoop_Refresh(o, [n |-> n, final |-> f, dull |-> d])
    \/ Teardown(o)

\* a blocked wait runs out; it takes the clock to get there
OrchTimeout == \E o \in 1..Len(orch) : Wait_Timeout(o)

ConsumerStep ==
  \E c \in 1..Len(cons) :
    \/ Consumer_Get(c)
    \/ Consumer_Remove(c)
    \/ Consumer_RemoveLocked(c)

\* One caller thread, with the clock running.
Next ==
  Tick \/ CallerStep({1}, Keys, MaxCalls) \/ OrchStep \/ OrchTimeout \/ ConsumerStep

Spec == Init /\ [][Next]_vars

\* Two caller threads racing within one clock reading: no wait runs out.
InitRace ==
  /\ now = 1
  /\ seis = <<>>
  /\ tracker = [buckets |-> <<>>, shutdown_flag |-> FALSE, next_trigger |-> None,
                interrupt_event |-> FALSE, waiters |-> {}, notified |-> {}]
  /\ main_thread = NoRef
  /\ lock = Free
  /\ orch = <<>>
  /\ cons = <<>>
  /\ call = [t \in Callers |-> Idle]
  /\ nCalls = 0
  /\ ret = NoRet
  /\ stale = NoStale
  /\ wsm = NewWebSocketManager(reconnect_delay_max)
  /\ parse = NoParse
  /\ pool = NewWebSocketPool

NextRace == CallerStep(Callers, RaceKeys, MaxRaceCalls) \/ OrchStep \/ ConsumerStep

SpecRace == InitRace /\ [][NextRace]_vars

\* ================================================================ properties

\* the SymbolSet instance s is a member of the tracker
Registered(s) == InSeq(s, AllSets(tracker))

\* the data batches (not the sentinel) of a sequence of queue items
RECURSIVE Batches(_)
Batches(q) ==
  IF q = <<>> THEN <<>>
  ELSE (IF Head(q) = STOP THEN <<>> ELSE <<Head(q)>>) \o Batches(Tail(q))

\* sq is a prefix of full
IsPrefix(sq, full) == Len(sq) <= Len(full) /\ sq = SubSeq(full, 1, Len(sq))

\* caller t makes a step of create_symbol_set for key k
SubscribeStep(t, k) ==
  /\ call[t].pc \in {"idle", "s_lock"}
  /\ call'[t] # call[t]
  /\ \/ call'[t].pc \in {"s_lock", "s_fetch", "s_thread"} /\ call'[t].key = k
     \/ ret'.t = t /\ ret'.op = "subscribe" /\ ret'.key = k

C2_UniqueKeys ==
  \A i, j \in 1..Len(AllSets(tracker)) :
     i # j => seis[AllSets(tracker)[i]].key # seis[AllSets(tracker)[j]].key

\* a subscribe that missed the key in the lookup without the lock waits for
\* the lock while the key has been registered by another caller
C2_Witness ==
  \E t \in Callers : call[t].pc = "s_lock" /\ Contains(tracker, call[t].key)

\* C3: what a consumer's callback was given is, in order, a prefix of what
\* was put on its queue, and none of it is the sentinel or was put on the
\* queue after the sentinel.
C3_FifoDelivery ==
  \A c \in 1..Len(cons) :
     /\ IsPrefix(cons[c].delivered, cons[c].enqueued)
     /\ \A i \in 1..Len(cons[c].delivered) : cons[c].enqueued[i] # STOP
     /\ cons[c].enqueued =
          SubSeq(cons[c].enqueued, 1, Len(cons[c].enqueued) - Len(cons[c].queue))
          \o cons[c].queue

\* a consumer that was given two batches and then took the sentinel
C3_Witness ==
  \E c \in 1..Len(cons) :
     /\ Len(cons[c].delivered) >= 2
     /\ cons[c].pc = "stopped"

\* C4: whenever a batch is put on a consumer's queue it is a bar that a fetch
\* returned, its timestamp differs from the last_update the SymbolSet had
\* and is the SymbolSet's last_update from then on, and it differs from the
\* batch put on that queue before it; a refresh whose fetches fail puts
\* nothing on any queue.
C4_OnlyNewBars ==
  [][\A c \in 1..Len(cons) :
       LET before == cons[c].enqueued
           after == cons'[c].enqueued
           s == cons[c].owner
       IN (after # before /\ after[Len(after)] # STOP) =>
            /\ after = Append(before, after[Len(after)])
            /\ after[Len(after)] \in BarTimes
            /\ seis[s].last_update # after[Len(after)]
            /\ seis'[s].last_update = after[Len(after)]
            /\ Batches(before) # <<>> =>
                 Batches(before)[Len(Batches(before))] # after[Len(after)]]_vars

\* a consumer's queue was given two bars, the second after a refresh
C4_Witness ==
  \E c \in 1..Len(cons) :
     /\ Len(Batches(cons[c].enqueued)) >= 2
     /\ seis[cons[c].owner].last_update = cons[c].enqueued[Len(cons[c].enqueued)]
     /\ Registered(cons[c].owner)

\* the list cl without the consumer c
RECURSIVE Without(_, _)
Without(cl, c) ==
  IF cl = <<>> THEN <<>>
  ELSE (IF Head(cl) = c THEN <<>> ELSE <<Head(cl)>>) \o Without(Tail(cl), c)

\* C5: a consumer whose callback raises on every invocation is given exactly
\* one batch, and once its thread has ended it is not in the consumer list of
\* its SymbolSet.
C5_FailingConsumerDetached ==
  \A c \in 1..Len(cons) :
     cons[c].raises =>
       /\ Len(cons[c].delivered) <= 1
       /\ cons[c].pc = "died" =>
            /\ Len(cons[c].delivered) = 1
            /\ ~InSeq(c, seis[cons[c].owner].consumers)

\* the thread of consumer c makes a step on the path taken after its callback
\* raised
FailureStep(c) ==
  /\ cons'[c].pc # cons[c].pc
  /\ cons'[c].pc \in {"failed", "removing", "died"}

\* C6: the steps a consumer thread makes after its callback raised change
\* nothing but that consumer and its entry in the consumer list of its
\* SymbolSet: no shutdown is requested, the orchestrator is untouched, every
\* other consumer and every list keeps its other members in order; and every
\* bar a refresh accepts is put on the queue of every consumer that is in the
\* SymbolSet's list, after which the orchestrator goes on with its loop.
C6_FailureIsolated ==
  [][/\ \A c \in 1..Len(cons) :
          FailureStep(c) =>
            /\ tracker' = tracker
            /\ orch' = orch
            /\ main_thread' = main_thread
            /\ Len(cons') = Len(cons)
            /\ \A d \in 1..Len(cons) : d # c => cons'[d] = cons[d]
            /\ Len(seis') = Len(seis)
            /\ \A s \in 1..Len(seis) :
                 \/ seis'[s] = seis[s]
                 \/ /\ s = cons[c].owner
                    /\ seis'[s] = [seis[s] EXCEPT !.consumers = Without(@, c)]
     /\ \A s \in 1..Len(seis) :
          (s <= Len(seis') /\ seis'[s].last_update # seis[s].last_update) =>
            /\ \A i \in 1..Len(seis[s].consumers) :
                 cons'[seis[s].consumers[i]].enqueued =
                   Append(cons[seis[s].consumers[i]].enqueued, seis'[s].last_update)
            /\ \A o \in 1..Len(orch) :
                 orch'[o] # orch[o] => orch'[o].pc \in {"o_loop", "w_check"}]_vars

\* a consumer whose callback raised has ended detached, and a sibling on the
\* same SymbolSet was given two bars
C6_Witness ==
  \E c, d \in 1..Len(cons) :
     /\ c # d /\ cons[c].owner = cons[d].owner
     /\ cons[c].raises /\ cons[c].pc = "died" /\ cons[c].symbol_set = NoRef
     /\ ~cons[d].raises /\ Len(cons[d].delivered) >= 2
     /\ cons[d].pc = "run"

\* C7: a shutdown() that found the orchestrator thread running returns
\* normally, and when it returns no orchestrator thread is alive.
C7_ShutdownReturns ==
  ret.op = "shutdown" =>
    /\ ret.status = "ok"
    /\ ret.h # NoRef => \A o \in 1..Len(orch) : Terminated(o)

\* orchestrator o leaves its loop: it runs the teardown of _data_loop
ExitStep(o) == orch[o].pc = "t_lock" /\ orch'[o].pc # "t_lock"

\* C8: when an orchestrator leaves its loop, every SymbolSet that was in the
\* tracker is removed and the tracker is empty, every consumer in the list of
\* one of them has the sentinel as the last item put on its queue and is
\* taken off the list, and the thread ends with _main_thread reset.
C8_TeardownComplete ==
  [][\A o \in 1..Len(orch) :
       ExitStep(o) =>
         /\ orch'[o].pc = "dead"
         /\ tracker'.buckets = <<>>
         /\ main_thread' = NoRef
         /\ \A i \in 1..Len(AllSets(tracker)) :
              LET s == AllSets(tracker)[i]
              IN /\ seis'[s].consumers = <<>>
                 /\ \A j \in 1..Len(seis[s].consumers) :
                      LET c == seis[s].consumers[j]
                      IN /\ cons'[c].enqueued = Append(cons[c].enqueued, STOP)
                         /\ cons'[c].queue = Append(cons[c].queue, STOP)]_vars

\* an orchestrator has left its loop after a staleness shutdown and a
\* consumer of a SymbolSet it tore down has stopped on the sentinel
C8_Witness ==
  \E o \in 1..Len(orch) : \E c \in 1..Len(cons) :
     /\ orch[o].pc = "dead"
     /\ stale.by = o
     /\ cons[c].pc = "stopped"
     /\ seis[cons[c].owner].live_feed
     /\ tracker.buckets = <<>>

\* C9: a refresh gives up after exactly RETRY_LIMIT attempts and requests the
\* shutdown; the orchestrator that gave up finishes its pass, finds the
\* request at its next wait_for_trigger and leaves the loop through the
\* teardown: it does not clear the request, block or fetch again.
C9_StalenessShutdown ==
  stale.by # NoRef =>
    /\ stale.attempts = RETRY_LIMIT
    /\ orch[stale.by].pc \in {"o_loop", "w_check", "w_wait", "t_lock", "dead"}
    /\ orch[stale.by].pc \in {"w_check", "w_wait"} => tracker.shutdown_flag

\* caller t completes the part of remove_symbol_set that runs with the lock
UnsubscribeStep(t) == call[t].pc = "u_lock" /\ call'[t].pc = "idle"

\* C10: an unsubscribe of a SymbolSet that is in the tracker puts the
\* sentinel on the queue of each of its consumers, takes it out of the tracker
\* and deletes its live_feed; an unsubscribe of a SymbolSet that is not in
\* the tracker raises, puts nothing on any queue and changes nothing.
C10_Unsubscribe ==
  [][\A t \in Callers :
       UnsubscribeStep(t) =>
         LET s == call[t].h
         IN IF Registered(s)
            THEN /\ ret'.status = "ok"
                 /\ ~InSeq(s, AllSets(tracker'))
                 /\ ~seis'[s].live_feed
                 /\ \A i \in 1..Len(seis[s].consumers) :
                      LET c == seis[s].consumers[i]
                      IN cons'[c].enqueued = Append(cons[c].enqueued, STOP)
            ELSE /\ ret'.status \in {"ValueError", "KeyError", "AttributeError"}
                 /\ cons' = cons
                 /\ seis' = seis
                 /\ tracker' = tracker]_vars

\* ------------------------------------- caller threads: get_historical_data

MaxFetchCalls == 3  \* API calls made in a run of SpecFetch

\* a thread that must not wait takes the lock regardless
AcquireAnyway(who) == lock' = who

\* threading.Lock.acquire by thread `who`
Acquire(who) == lock = Free /\ lock' = who

\* XnoxsLiveFeed.get_historical_data, lines 469-471, timeout > 0: the lock
\* was not obtained in time and the call returns None without fetching
GetHistoricalData_TimedOut(t, max) ==
  /\ call[t].pc = "idle"
  /\ nCalls < max
  /\ lock # Free
  /\ nCalls' = nCalls + 1
  /\ Return(t, "fetch", <<>>, NoRef, "timeout", NoRef)
  /\ UNCHANGED <<now, seis, tracker, main_thread, lock, orch, cons, stale, wsm, parse, pool>>

\* XnoxsLiveFeed.get_historical_data, lines 469-477: the lock is taken and
\* the fetch of the parent class starts
GetHistoricalData_Lock(t, max) ==
  /\ call[t].pc = "idle"
  /\ nCalls < max
  /\ Acquire(<<"caller", t>>)
  /\ nCalls' = nCalls + 1
  /\ Goes(t, "g_fetch", <<>>, NoRef, FALSE)
  /\ UNCHANGED <<now, seis, tracker, main_thread, orch, cons, stale, wsm, parse, pool>>

\* XnoxsLiveFeed.get_historical_data, lines 473-479: the fetch returns or
\* raises and the lock is released
GetHistoricalData_Done(t, out) ==
  /\ call[t].pc = "g_fetch"
  /\ out \in FetchOutcomes
  /\ lock' = Free
  /\ Return(t, "fetch", <<>>, NoRef,
            IF out = ParseRaise THEN "ParseError" ELSE "ok", out)
  /\ UNCHANGED <<now, seis, tracker, main_thread, orch, cons, nCalls, stale, wsm, parse, pool>>

FetchStep(T, max) ==
  \E t \in T :
    \/ GetHistoricalData_TimedOut(t, max)
    \/ GetHistoricalData_Lock(t, max)
    \/ \E out \in FetchOutcomes : GetHistoricalData_Done(t, out)

\* Two caller threads that also fetch through the feed, within one clock
\* reading.
NextFetch ==
  \/ CallerStep(Callers, RaceKeys, MaxFetchCalls)
  \/ FetchStep(Callers, MaxFetchCalls)
  \/ OrchStep
  \/ ConsumerStep

SpecFetch == InitRace /\ [][NextFetch]_vars

\* the threads that are inside super().get_historical_data or between two
\* fetches of one refresh pass
Fetchers ==
  { <<"caller", t>> : t \in { u \in Callers : call[u].pc \in {"s_fetch", "g_fetch"} } }
  \cup { <<"orch", o>> : o \in { q \in 1..Len(orch) : orch[q].pc = "o_loop" } }

\* C11: at most one thread is fetching at any time, and it holds the lock:
\* the fetch of create_symbol_set, the fetches of a refresh pass and a
\* get_historical_data made on the feed never overlap.
C11_OneFetchAtATime ==
  /\ Cardinality(Fetchers) <= 1
  /\ \A f \in Fetchers : lock = f

\* a get_historical_data call is fetching while an orchestrator with a due
\* interval group waits for the lock
C11_Witness ==
  \E t \in Callers : \E o \in 1..Len(orch) :
     /\ call[t].pc = "g_fetch"
     /\ orch[o].pc = "o_lock"
     /\ ExpiredMembers(tracker, now, 1) # <<>>

\* --------------------------------- the IntervalTracker driven on its own

MaxOps == 4  \* SymbolSets added to the tracker in a run of SpecSched

UpdateTimes == 0..MaxTime

\* IntervalTracker.add_symbol_set(seis, update_time) called on a tracker
\* that no feed owns, with a new SymbolSet of key k
Sched_Add(k, update_time) ==
  /\ Len(seis) < MaxOps
  /\ seis' = Append(seis, NewSymbolSet(k))
  /\ tracker' = AddSymbolSet(tracker, Len(seis) + 1, k, update_time)
  /\ ret' = [t |-> 1, op |-> "add", key |-> k, h |-> Len(seis) + 1,
             status |-> "ok", val |-> update_time]
  /\ UNCHANGED <<now, main_thread, lock, orch, cons, call, nCalls, stale, wsm, parse, pool>>

\* IntervalTracker.remove_symbol_set(seis) with SymbolSet s: KeyError when
\* no SymbolSet of the tracker equals s
Sched_Remove(s) ==
  /\ s \in 1..Len(seis)
  /\ IF Contains(tracker, seis[s].key)
     THEN /\ tracker' = RemoveSymbolSet(tracker, seis[s].key)
          /\ ret' = [t |-> 1, op |-> "remove", key |-> seis[s].key, h |-> s,
                     status |-> "ok", val |-> tracker.next_trigger]
     ELSE /\ UNCHANGED tracker
          /\ ret' = [t |-> 1, op |-> "remove", key |-> seis[s].key, h |-> s,
                     status |-> "KeyError", val |-> tracker.next_trigger]
  /\ UNCHANGED <<now, seis, main_thread, lock, orch, cons, call, nCalls, stale, wsm, parse, pool>>

NextSched ==
  \/ \E k \in Keys : \E u \in UpdateTimes : Sched_Add(k, u)
  \/ \E s \in 1..Len(seis) : Sched_Remove(s)

\* add and remove calls only, on a tracker as constructed
SpecSched == Init /\ [][NextSched]_vars

\* C12: after every sequence of add_symbol_set and remove_symbol_set calls
\* the stored wake time _next_trigger is the smallest trigger time of the
\* interval groups, and it is None exactly when there is no interval group.
C12_WakeTimeIsMinimum ==
  IF Len(tracker.buckets) = 0
  THEN tracker.next_trigger = None
  ELSE /\ tracker.next_trigger # None
       /\ \E i \in 1..Len(tracker.buckets) :
            tracker.next_trigger = tracker.buckets[i].trig
       /\ \A i \in 1..Len(tracker.buckets) :
            tracker.next_trigger <= tracker.buckets[i].trig

\* a removal has emptied the interval group that was due first and the
\* stored wake time moved to a later group
C12_Witness ==
  /\ ret.op = "remove"
  /\ ret.status = "ok"
  /\ Len(tracker.buckets) > 0
  /\ ret.val # None
  /\ tracker.next_trigger > ret.val

\* C13: every interval group of the tracker has at least one SymbolSet: the
\* removal of the last SymbolSet of an interval, by remove_symbol_set or by
\* the teardown of the orchestrator, pops the group in the same step.
C13_NoEmptyGroup ==
  /\ \A i \in 1..Len(tracker.buckets) : tracker.buckets[i].members # <<>>
  /\ \A i, j \in 1..Len(tracker.buckets) :
       tracker.buckets[i].iv = tracker.buckets[j].iv => i = j

\* an unsubscribe has removed the only SymbolSet of its interval while a
\* group of another interval stays
C13_Witness ==
  /\ ret.op = "unsubscribe"
  /\ ret.status = "ok"
  /\ Interval(seis[ret.h].key) \notin GetIntervals(tracker)
  /\ Len(tracker.buckets) = 1

\* ------------------------- the IntervalTracker drained as the clock runs

\* the list get_expired_intervals returns: the keys of the due groups
ExpiredKeys(T, t) ==
  LET due == SelectSeq(T.buckets, LAMBDA b : t >= b.trig)
  IN [i \in 1..Len(due) |-> due[i].iv]

\* IntervalTracker.get_expired_intervals() called at the time `now`
Sched_Drain ==
  /\ tracker' = GetExpiredIntervals(tracker, now)
  /\ ret' = [t |-> 1, op |-> "drain", key |-> ExpiredKeys(tracker, now),
             h |-> NoRef, status |-> "ok", val |-> now]
  /\ UNCHANGED <<now, seis, main_thread, lock, orch, cons, call, nCalls, stale, wsm, parse, pool>>

NextDrain ==
  \/ Tick
  \/ \E k \in Keys : \E u \in UpdateTimes : Sched_Add(k, u)
  \/ Sched_Drain

SpecDrain == Init /\ [][NextDrain]_vars

\* C14: a group created by an add with update time T0 has the trigger time
\* T0 + D, D the duration of its interval.  A get_expired_intervals call
\* made before a group's trigger time does not return the group and leaves
\* its trigger time alone; a call made at or after it returns the group's
\* key, under which the tracker holds exactly the group's SymbolSets, and
\* moves the trigger time forward by exactly D (from T0 + D to T0 + 2D).
C14_DrainDue ==
  [][/\ (ret'.op = "add" /\ Len(seis') = Len(seis) + 1
         /\ Interval(ret'.key) \notin GetIntervals(tracker))
        => LET b == tracker'.buckets[BucketOf(tracker', Interval(ret'.key))]
           IN /\ b.trig = ret'.val + TIMEFRAME_DELTAS(b.iv)
              /\ b.members = <<ret'.h>>
     /\ (ret'.op = "drain" /\ ret'.val = now)
        => /\ Len(tracker'.buckets) = Len(tracker.buckets)
           /\ \A i \in 1..Len(tracker.buckets) :
                LET b == tracker.buckets[i]
                    a == tracker'.buckets[i]
                IN /\ a.iv = b.iv
                   /\ a.members = b.members
                   /\ IF now < b.trig
                      THEN /\ ~InSeq(b.iv, ret'.key)
                           /\ a.trig = b.trig
                      ELSE /\ Len(SelectSeq(ret'.key, LAMBDA x : x = b.iv)) = 1
                           /\ a.trig = b.trig + TIMEFRAME_DELTAS(b.iv)
                           /\ a.trig > b.trig
           /\ \A j \in 1..Len(ret'.key) : ret'.key[j] \in GetIntervals(tracker)
    ]_vars

\* a call made after the trigger time of one group has passed returned that
\* group and not the other one
C14_Witness ==
  /\ ret.op = "drain"
  /\ Len(ret.key) = 1
  /\ Len(tracker.buckets) = 2
  /\ \E i \in 1..2 :
       /\ tracker.buckets[i].iv = ret.key[1]
       /\ ret.val > tracker.buckets[i].trig - TIMEFRAME_DELTAS(ret.key[1])

\* C15: once request_shutdown has been called (the flag and the event are
\* set), a wait_for_trigger call returns False at its Event.wait without
\* blocking, whether the tracker has interval groups or not; and a second
\* request_shutdown leaves the tracker as the first one left it.
C15_WaitAfterShutdown ==
  /\ [](RequestShutdown(RequestShutdown(tracker)) = RequestShutdown(tracker))
  /\ [][\A o \in 1..Len(orch) :
          (/\ orch[o].pc = "w_wait"
           /\ tracker.shutdown_flag
           /\ tracker.interrupt_event
           /\ orch'[o] # orch[o])
          => orch'[o].pc = "t_lock"]_vars

\* -------------------------------------- WebSocketManager: its methods

\* thread t leaves its outermost call with the given result
WsReturn(w, t, status) ==
  [w EXCEPT !.th[t] = [WsIdle EXCEPT !.pc = IF t = HeartbeatThread
                                            THEN "dead" ELSE "idle"],
            !.last = [t |-> t, op |-> w.th[t].op, status |-> status]]

WsGoes(w, t, pc) == [w EXCEPT !.th[t].pc = pc, !.last = WsNoRet]

\* reconnect returns ok to the method that called it: to the caller, to send
\* or receive (lines 260-262 and 308-310), or to the heartbeat loop, which
\* breaks (lines 239-240)
ReconnectReturn(w, t, ok) ==
  CASE w.th[t].op = "reconnect" -> WsReturn(w, t, IF ok THEN "True" ELSE "False")
    [] w.th[t].op = "heartbeat" -> WsReturn(w, t, "None")
    [] w.th[t].op = "send" -> IF ok THEN WsGoes(w, t, "io") ELSE WsReturn(w, t, "False")
    [] w.th[t].op = "receive" -> IF ok THEN WsGoes(w, t, "io") ELSE WsReturn(w, t, "None")

\* connect returns ok: to the caller, or to the loop of reconnect (lines
\* 211-216), which returns True, goes to its next attempt or gives up
ConnectReturn(w, t, ok) ==
  IF w.th[t].op = "connect" THEN WsReturn(w, t, IF ok THEN "True" ELSE "False")
  ELSE IF ok THEN ReconnectReturn(w, t, TRUE)
  ELSE IF MoreAttempts(w.th[t].attempt + 1)
  THEN WsGoes([w EXCEPT !.th[t].attempt = @ + 1], t, "r_sleep")
  ELSE WsGoes(w, t, "r_fail")

\* _start_heartbeat, lines 218-229
StartHeartbeat(w) ==
  IF w.th[HeartbeatThread].pc \in {"idle", "dead"}
  THEN [w EXCEPT !.stop_heartbeat = FALSE,
                 !.th[HeartbeatThread] = [WsIdle EXCEPT !.pc = "h_loop",
                                                        !.op = "heartbeat"]]
  ELSE w

\* connect, lines 129-133: the lock is taken; Connected returns True at
\* once, any other state becomes Connecting
ConnectLocked(w, t) ==
  IF w.state = "connected"
  THEN ConnectReturn(w, t, TRUE)
  ELSE WsGoes([SetState(w, "connecting", TRUE) EXCEPT !.lock = t], t, "c_open")

\* a call a thread makes from outside: it is counted
WsCall(t, op) ==
  /\ t \in Callers
  /\ wsm.th[t].pc = "idle"
  /\ wsm.calls < MaxWsCalls

WsCalled(w, t, op) == [w EXCEPT !.calls = @ + 1, !.th[t].op = op]

\* connect() called by thread t
Ws_Connect(t) ==
  /\ WsCall(t, "connect")
  /\ wsm.lock = None
  /\ wsm' = ConnectLocked(WsCalled(wsm, t, "connect"), t)
  /\ UNCHANGED <<feedVars, parse, pool>>

\* connect() called by reconnect, line 211
Ws_Connect_Nested(t) ==
  /\ wsm.th[t].pc = "c_lock"
  /\ wsm.lock = None
  /\ wsm' = ConnectLocked(wsm, t)
  /\ UNCHANGED <<feedVars, parse, pool>>

\* connect, lines 135-158: create_connection succeeds or raises
Ws_Connect_Open(t, ok) ==
  /\ wsm.th[t].pc = "c_open"
  /\ LET w0 == [wsm EXCEPT !.lock = None, !.th[t].tries = @ + 1]
     IN wsm' = IF ok
               THEN ConnectReturn(
                      StartHeartbeat([SetState(w0, "connected", TRUE) EXCEPT
                                        !.ws = w0.opened + 1,
                                        !.opened = @ + 1,
                                        !.reconnect_count = 0]), t, TRUE)
               ELSE ConnectReturn(SetState(w0, "disconnected", TRUE), t, FALSE)
  /\ UNCHANGED <<feedVars, parse, pool>>

\* disconnect(), lines 160-173
Ws_Disconnect(t) ==
  /\ WsCall(t, "disconnect")
  /\ wsm.lock = None
  /\ wsm' = WsReturn(SetState([WsCalled(wsm, t, "disconnect") EXCEPT
                                 !.stop_heartbeat = TRUE, !.ws = None],
                              "closed", TRUE),
                     t, "None")
  /\ UNCHANGED <<feedVars, parse, pool>>

\* reconnect, lines 183-185: Closed returns False
ReconnectCheck(w, t) ==
  IF w.state = "closed" THEN ReconnectReturn(w, t, FALSE)
  ELSE WsGoes(w, t, "r_set")

\* reconnect() called by thread t
Ws_Reconnect(t) ==
  /\ WsCall(t, "reconnect")
  /\ wsm' = ReconnectCheck(WsCalled(wsm, t, "reconnect"), t)
  /\ UNCHANGED <<feedVars, parse, pool>>

\* reconnect() called by send, receive or the heartbeat loop
Ws_Reconnect_Nested(t) ==
  /\ wsm.th[t].pc = "r_check"
  /\ wsm' = ReconnectCheck(wsm, t)
  /\ UNCHANGED <<feedVars, parse, pool>>

\* reconnect, lines 187-188: Reconnecting is set and the loop is entered
Ws_Reconnect_Set(t) ==
  /\ wsm.th[t].pc = "r_set"
  /\ wsm' = WsGoes([SetState(wsm, "reconnecting", FALSE) EXCEPT !.th[t].attempt = 0],
                   t, IF MoreAttempts(0) THEN "r_sleep" ELSE "r_fail")
  /\ UNCHANGED <<feedVars, parse, pool>>

\* reconnect, lines 189-201: the attempt is counted and its delay is slept
Ws_Reconnect_Sleep(t) ==
  /\ wsm.th[t].pc = "r_sleep"
  /\ wsm' = WsGoes([wsm EXCEPT
                      !.reconnect_count = wsm.th[t].attempt + 1,
                      !.th[t].delay = BackoffDelay(wsm.th[t].attempt,
                                                   wsm.reconnect_delay_max)],
                   t, "r_close")
  /\ UNCHANGED <<feedVars, parse, pool>>

\* reconnect, lines 203-208: the socket at hand is closed and dropped
Ws_Reconnect_Close(t) ==
  /\ wsm.th[t].pc = "r_close"
  /\ wsm' = WsGoes([wsm EXCEPT !.ws = None], t, "c_lock")
  /\ UNCHANGED <<feedVars, parse, pool>>

\* reconnect, lines 214-216: all attempts failed
Ws_Reconnect_Fail(t) ==
  /\ wsm.th[t].pc = "r_fail"
  /\ wsm' = ReconnectReturn(SetState(wsm, "disconnected", FALSE), t, FALSE)
  /\ UNCHANGED <<feedVars, parse, pool>>

\* send(message) and receive(), lines 260-262 and 308-310: reconnect is
\* called first when the manager is not connected or has no socket
Ws_IO_Check(t, op) ==
  /\ WsCall(t, op)
  /\ op \in {"send", "receive"}
  /\ wsm' = WsGoes(WsCalled(wsm, t, op), t,
                   IF wsm.state # "connected" \/ wsm.ws = None
                   THEN "r_check" ELSE "io")
  /\ UNCHANGED <<feedVars, parse, pool>>

\* send, lines 264-271, and receive, lines 312-328: the socket is used;
\* AttributeError when _ws has become None
Ws_IO(t, ok) ==
  /\ wsm.th[t].pc = "io"
  /\ wsm' = WsReturn(wsm, t,
                     IF wsm.ws = None THEN "AttributeError"
                     ELSE IF wsm.th[t].op = "send"
                     THEN (IF ok THEN "True" ELSE "False")
                     ELSE (IF ok THEN "message" ELSE "None"))
  /\ UNCHANGED <<feedVars, parse, pool>>

\* _heartbeat_loop, lines 233-248: one pass; `late` says whether the last
\* pong is older than ping_timeout
Ws_Heartbeat(late) ==
  /\ wsm.th[HeartbeatThread].pc = "h_loop"
  /\ wsm' = IF wsm.stop_heartbeat \/ wsm.state # "connected"
            THEN WsReturn(wsm, HeartbeatThread, "None")
            ELSE IF late THEN WsGoes(wsm, HeartbeatThread, "r_check")
            ELSE WsGoes(wsm, HeartbeatThread, "h_loop")
  /\ UNCHANGED <<feedVars, parse, pool>>

\* a manager as constructed, with either reconnect_delay_max
InitWs ==
  /\ now = 0
  /\ seis = <<>>
  /\ tracker = [buckets |-> <<>>, shutdown_flag |-> FALSE, next_trigger |-> None,
                interrupt_event |-> FALSE, waiters |-> {}, notified |-> {}]
  /\ main_thread = NoRef
  /\ lock = Free
  /\ orch = <<>>
  /\ cons = <<>>
  /\ call = [t \in Callers |-> Idle]
  /\ nCalls = 0
  /\ ret = NoRet
  /\ stale = NoStale
  /\ \E m \in DelayMaxChoices : wsm = NewWebSocketManager(m)
  /\ parse = NoParse
  /\ pool = NewWebSocketPool

WsCallStep ==
  \E t \in Callers :
    \/ Ws_Connect(t)
    \/ Ws_Disconnect(t)
    \/ Ws_Reconnect(t)
    \/ \E op \in {"send", "receive"} : Ws_IO_Check(t, op)

WsThreadStep ==
  \E t \in WsThreads :
    \/ Ws_Connect_Nested(t)
    \/ \E ok \in BOOLEAN : Ws_Connect_Open(t, ok)
    \/ Ws_Reconnect_Nested(t)
    \/ Ws_Reconnect_Set(t)
    \/ Ws_Reconnect_Sleep(t)
    \/ Ws_Reconnect_Close(t)
    \/ Ws_Reconnect_Fail(t)
    \/ \E ok \in BOOLEAN : Ws_IO(t, ok)

WsHeartbeatStep == \E late \in BOOLEAN : Ws_Heartbeat(late)

NextWs == WsCallStep \/ WsThreadStep \/ WsHeartbeatStep

SpecWs == InitWs /\ [][NextWs]_vars

\* C16: Closed is terminal: once disconnect has set the state to Closed no
\* step of any method (connect, reconnect, send, receive, the heartbeat
\* loop, a reconnect that was under way) changes the state or opens a socket.
C16_ClosedIsTerminal ==
  [][wsm.state = "closed"
       => /\ wsm'.state = "closed"
          /\ wsm'.opened = wsm.opened
          /\ wsm'.ws = None]_vars

\* C17: a reconnect call whose attempts all fail makes exactly
\* max_reconnect_attempts calls of create_connection, never more, then sets
\* the state to Disconnected and returns False.
C17_ReconnectGivesUp ==
  /\ [](\A t \in WsThreads : wsm.th[t].tries <= max_reconnect_attempts)
  /\ [][\A t \in WsThreads :
          /\ (wsm.th[t].pc = "c_open" /\ wsm'.th[t].pc = "r_fail")
             => wsm'.th[t].tries = max_reconnect_attempts
          /\ (wsm.th[t].pc = "c_open" /\ wsm.th[t].op # "connect"
              /\ wsm'.th[t].tries = wsm.th[t].tries + 1
              /\ wsm'.th[t].tries < max_reconnect_attempts
              /\ wsm'.opened = wsm.opened)
             => wsm'.th[t].pc = "r_sleep"
          /\ (wsm.th[t].pc = "r_fail" /\ wsm'.th[t].pc # "r_fail")
             => /\ wsm.th[t].tries = max_reconnect_attempts
                /\ wsm'.state = "disconnected"
                /\ wsm.th[t].op = "reconnect"
                   => wsm'.last = [t |-> t, op |-> "reconnect", status |-> "False"]
     ]_vars

\* a reconnect called on a manager whose socket never opened has returned
\* False after its last attempt
C17_Witness ==
  /\ wsm.last.op = "reconnect"
  /\ wsm.last.status = "False"
  /\ wsm.opened = 0
  /\ wsm.reconnect_count = max_reconnect_attempts
  /\ wsm.state = "disconnected"

\* C18: in reconnect the delay slept before the second attempt is
\* reconnect_delay and the delay slept before the third attempt is twice
\* reconnect_delay, and no delay is longer than reconnect_delay_max.
C18_BackoffDelays ==
  [][\A t \in WsThreads :
       (wsm.th[t].pc = "r_sleep" /\ wsm'.th[t].pc = "r_close")
       => /\ wsm.th[t].attempt = 1 => wsm'.th[t].delay = reconnect_delay
          /\ wsm.th[t].attempt = 2 => wsm'.th[t].delay = 2 * reconnect_delay
          /\ wsm'.th[t].delay <= wsm.reconnect_delay_max]_vars

\* C19: a blocked wait_for_trigger that a mutation of the tracker wakes
\* while no shutdown is requested goes round its loop with the event clear
\* again, so that its next Event.wait blocks until the new wake time and the
\* call returns True when that time has come.
C19_InterruptedWaitBlocksAgain ==
  [][\A o \in 1..Len(orch) :
       (orch[o].pc = "w_blocked" /\ orch'[o].pc = "w_wait")
       => ~tracker'.interrupt_event]_vars

\* C20: a request_shutdown made by another thread is not lost: a
\* wait_for_trigger call that begins after it (the flag is read as set at
\* line 92) finds the event still set, so that its Event.wait returns at
\* once and the call returns False.
C20_ShutdownRequestKept ==
  [][\A o \in 1..Len(orch) :
       (orch[o].pc = "w_check" /\ orch'[o].pc = "w_wait")
       => tracker.interrupt_event]_vars

\* C21: once the refresh of a SymbolSet has given up and requested the
\* shutdown, the orchestrator that gave up makes no further refresh: it
\* fetches for no other SymbolSet of the pass and puts no bar on any queue.
C21_NoRefreshAfterExhaustion ==
  [][\A o \in 1..Len(orch) :
       (orch[o].pc = "o_loop" /\ stale.by = o /\ tracker.shutdown_flag)
       => /\ orch'[o] = orch[o]
          /\ seis' = seis
          /\ cons' = cons]_vars

\* C22: a refresh attempt whose response cannot be parsed is one failed
\* attempt: the orchestrator thread does not end inside its refresh pass
\* because of it.
C22_ParseFailureIsOneAttempt ==
  [][\A o \in 1..Len(orch) :
       orch[o].pc = "o_loop" => orch'[o].pc # "crashed"]_vars

\* C23: when create_symbol_set starts an orchestrator thread, the SymbolSet
\* it has just added is in the tracker and no shutdown request made earlier
\* is pending, so that the new thread does not go to its teardown.
C23_RestartAfterShutdown ==
  [][\A t \in Callers :
       (call[t].pc = "s_start" /\ Len(orch') = Len(orch) + 1)
       => /\ ~tracker'.shutdown_flag
          /\ InSeq(call[t].h, AllSets(tracker'))]_vars

\* the threads running _data_loop that have not ended
AliveOrchestrators == { o \in 1..Len(orch) : orch[o].pc \notin {"dead", "crashed"} }

\* C24: at most one thread running _data_loop is alive at any time.
C24_OneOrchestrator == Cardinality(AliveOrchestrators) <= 1

\* C25: create_consumer appends a consumer to a SymbolSet's list and starts
\* its thread only while that SymbolSet is in the tracker.
C25_AttachOnlyRegistered ==
  [][\A t \in Callers :
       (call[t].pc = "a_lock" /\ call'[t].pc = "idle")
       => Registered(call[t].h)]_vars

\* C26: a wait_for_trigger call never evaluates a wake time that is None:
\* the orchestrator thread is not ended by its wait.
C26_WaitNeverFails ==
  [][\A o \in 1..Len(orch) :
       orch[o].pc = "w_wait" => orch'[o].pc # "crashed"]_vars

\* ------------- the IntervalTracker with all its operations and the clock

\* IntervalTracker.request_shutdown() called on the tracker
Sched_RequestShutdown ==
  /\ ~tracker.shutdown_flag
  /\ tracker' = RequestShutdown(tracker)
  /\ ret' = [t |-> 1, op |-> "request_shutdown", key |-> <<>>, h |-> NoRef,
             status |-> "ok", val |-> NoRef]
  /\ UNCHANGED <<now, seis, main_thread, lock, orch, cons, call, nCalls, stale, wsm, parse, pool>>

NextTracker ==
  \/ Tick
  \/ \E k \in Keys : \E u \in UpdateTimes : Sched_Add(k, u)
  \/ \E s \in 1..Len(seis) : Sched_Remove(s)
  \/ Sched_Drain
  \/ Sched_RequestShutdown

SpecTracker == Init /\ [][NextTracker]_vars

\* C27: after any sequence of add_symbol_set, remove_symbol_set,
\* get_expired_intervals and request_shutdown calls, _next_trigger is the
\* smallest trigger time of the interval groups that exist.
C27_WakeTimeAlwaysMinimum ==
  \A i \in 1..Len(tracker.buckets) :
     /\ tracker.next_trigger # None
     /\ tracker.next_trigger <= tracker.buckets[i].trig
     /\ \E j \in 1..Len(tracker.buckets) :
          tracker.next_trigger = tracker.buckets[j].trig

\* C28: when get_expired_intervals returns, the trigger time of every group
\* it returned is later than the time of the call.
C28_DrainedGroupsAreAhead ==
  [][(ret'.op = "drain" /\ ret'.val = now)
       => \A i \in 1..Len(tracker'.buckets) :
            InSeq(tracker'.buckets[i].iv, ret'.key)
            => tracker'.buckets[i].trig > now]_vars

\* C29: when create_symbol_set returns a SymbolSet it has created, the
\* SymbolSet's _last_update is set from the initial fetch.
C29_LastUpdateSeeded ==
  (ret.op = "subscribe" /\ ret.status = "created")
  => seis[ret.val].last_update # None

\* C30: a create_symbol_set whose initial fetch returns no data or raises
\* fails: it adds no SymbolSet, leaves the tracker as it was, starts no
\* orchestrator thread and has released the lock.
C30_FailedSubscribeLeavesNoTrace ==
  [][\A t \in Callers :
       (call[t].pc = "s_fetch" /\ ret'.t = t
        /\ ret'.status \in {"AttributeError", "ParseError"})
       => /\ call'[t] = Idle
          /\ seis' = seis
          /\ tracker' = tracker
          /\ orch' = orch
          /\ main_thread' = main_thread
          /\ lock' = Free]_vars

\* a subscribe for an interval without a group has failed in its fetch while
\* a group of another interval stays as it was
C30_Witness ==
  /\ ret.op = "subscribe"
  /\ ret.status \in {"AttributeError", "ParseError"}
  /\ Len(tracker.buckets) = 1
  /\ Interval(ret.key) \notin GetIntervals(tracker)
  /\ lock = Free

\* C31: when remove_consumer (called by a caller or by a consumer thread
\* whose callback raised) takes the last consumer out of a SymbolSet's list,
\* that SymbolSet is no longer in the tracker.
C31_LastConsumerEndsSymbolSet ==
  [][\A s \in 1..Len(seis) :
       (/\ seis[s].consumers # <<>>
        /\ seis'[s].consumers = <<>>
        /\ \/ (ret'.op = "detach" /\ ret'.status = "ok")
           \/ \E c \in 1..Len(cons) : cons[c].pc = "removing" /\ cons'[c].pc = "died")
       => ~InSeq(s, AllSets(tracker'))]_vars

\* C32: a SymbolSet's _live_feed is set exactly while the SymbolSet is in the
\* tracker.
C32_LiveFeedWhileRegistered ==
  \A s \in 1..Len(seis) : seis[s].live_feed <=> Registered(s)

\* C33: a caller of create_symbol_set, remove_symbol_set or create_consumer
\* that is about to acquire the lock is never kept from it by an orchestrator
\* that holds the lock while it fetches.
C33_CallersDoNotWaitForFetch ==
  \A t \in Callers :
     call[t].pc \in {"s_lock", "u_lock", "a_lock"}
     => \A o \in 1..Len(orch) :
          ~(orch[o].pc = "o_loop" /\ lock = <<"orch", o>>)

\* C34: every on_state_change callback is invoked while the calling method
\* does not hold the manager's lock.
C34_ObserversOutsideLock == ~wsm.observed.locked

\* thread t is inside reconnect, past its test for Closed
InReconnect(t) ==
  \/ wsm.th[t].pc \in {"r_set", "r_sleep", "r_close", "c_lock", "r_fail"}
  \/ wsm.th[t].pc = "c_open" /\ wsm.th[t].op # "connect"

\* C35: two reconnect procedures never run at the same time.
C35_OneReconnectAtATime ==
  Cardinality({ t \in WsThreads : InReconnect(t) }) <= 1

\* C36: a send or receive that fails on the socket while the state is
\* Connected returns False / None and leaves the state Reconnecting.
C36_FailedIOLeavesConnected ==
  [][\A t \in Callers :
       (/\ wsm.th[t].pc = "io"
        /\ wsm.state = "connected"
        /\ wsm.ws # None
        /\ wsm'.last.t = t
        /\ wsm'.last.status \in {"False", "None"})
       => wsm'.state = "reconnecting"]_vars

\* C37: while a reconnect is running with attempts left, the state changes
\* only from Reconnecting to Connected (an attempt succeeded) or to Closed:
\* no step of the reconnecting thread sets Connecting or Disconnected
\* between two attempts.
C37_ReconnectingUntilOutcome ==
  [][\A t \in WsThreads :
       (/\ InReconnect(t)
        /\ wsm.th[t].pc \notin {"r_set", "r_fail"}
        /\ wsm.th[t] # wsm'.th[t]
        /\ wsm'.state # wsm.state)
       => /\ wsm.state = "reconnecting"
          /\ wsm'.state \in {"connected", "closed"}]_vars

\* C38: while the state is Connected a heartbeat loop is running.
C38_HeartbeatWhileConnected ==
  wsm.state = "connected" => wsm.th[HeartbeatThread].pc \notin {"idle", "dead"}

\* ------------------------------------------- _parse_raw_data: its calls

\* a response is at hand and _parse_raw_data has not been called
InitParse ==
  /\ now = 0
  /\ seis = <<>>
  /\ tracker = [buckets |-> <<>>, shutdown_flag |-> FALSE, next_trigger |-> None,
                interrupt_event |-> FALSE, waiters |-> {}, notified |-> {}]
  /\ main_thread = NoRef
  /\ lock = Free
  /\ orch = <<>>
  /\ cons = <<>>
  /\ call = [t \in Callers |-> Idle]
  /\ nCalls = 0
  /\ ret = NoRet
  /\ stale = NoStale
  /\ wsm = NewWebSocketManager(reconnect_delay_max)
  /\ pool = NewWebSocketPool
  /\ \E rows \in Responses : parse = [NoParse EXCEPT !.rows = rows]

\* _parse_raw_data, lines 312-346, on the rows at hand
Parse_Call ==
  /\ ~parse.returned
  /\ parse' = [parse EXCEPT !.df = ParseRawData(parse.rows), !.returned = TRUE]
  /\ UNCHANGED <<feedVars, wsm, pool>>

NextParse == Parse_Call

SpecParse == InitParse /\ [][NextParse]_vars

\* the volume field of row i is there and is a number
VolumeGiven(i) == Len(parse.rows[i]) = 6 /\ IsFloat(parse.rows[i][6])

\* open, high, low and close of row i are numbers
PricesGiven(i) == \A p \in 2..5 : IsFloat(parse.rows[i][p])

\* C39: _parse_raw_data returns a record for every row; a row whose volume
\* is absent or no number gives volume zero in its record and in every later
\* record; and as long as every row so far has numeric prices and a volume,
\* the record's volume is the row's volume.
C39_VolumeZeroFromFirstGap ==
  parse.returned =>
    /\ Len(parse.df) = Len(parse.rows)
    /\ \A i \in 1..Len(parse.rows) :
         ~VolumeGiven(i) => \A j \in i..Len(parse.rows) : parse.df[j][6] = 0
    /\ \A j \in 1..Len(parse.rows) :
         (\A i \in 1..j : PricesGiven(i) /\ VolumeGiven(i))
         => parse.df[j][6] = Float(parse.rows[j][6])

\* a response whose first row has no volume and whose second row has one has
\* been parsed
C39_Witness ==
  /\ parse.returned
  /\ Len(parse.rows) = 2
  /\ PricesGiven(1) /\ ~VolumeGiven(1)
  /\ PricesGiven(2) /\ VolumeGiven(2)
  /\ parse.df[2][6] = 0

\* ------------------------------------------------- WebSocketPool: calls

PoolReturn(t, op, ws) == [t |-> t, op |-> op, ws |-> ws]

\* initialize(), lines 403-409
Pool_Initialize ==
  /\ pool.connections = <<>>
  /\ pool' = [pool EXCEPT !.connections = [i \in 1..pool_size |-> i],
                          !.available = [i \in 1..pool_size |-> i],
                          !.last = PoolReturn(None, "initialize", None)]
  /\ UNCHANGED <<feedVars, wsm, parse>>

\* acquire(), lines 420-430: the last available connection is popped; None
\* when none becomes available within the timeout
Pool_Acquire(t) ==
  /\ pool.calls < MaxPoolCalls
  /\ LET n == Len(pool.available)
     IN pool' = IF n = 0
                THEN [pool EXCEPT !.calls = @ + 1,
                                  !.last = PoolReturn(t, "acquire", None)]
                ELSE [pool EXCEPT !.calls = @ + 1,
                                  !.available = SubSeq(@, 1, n - 1),
                                  !.held[t] = @ \cup {pool.available[n]},
                                  !.known[t] = @ \cup {pool.available[n]},
                                  !.last = PoolReturn(t, "acquire", pool.available[n])]
  /\ UNCHANGED <<feedVars, wsm, parse>>

\* release(ws), lines 439-442, by a caller that was given ws at some time
Pool_Release(t, ws) ==
  /\ pool.calls < MaxPoolCalls
  /\ ws \in pool.known[t]
  /\ pool' = [pool EXCEPT !.calls = @ + 1,
                          !.available = IF InSeq(ws, pool.connections)
                                        THEN Append(@, ws) ELSE @,
                          !.held[t] = @ \ {ws},
                          !.last = PoolReturn(t, "release", ws)]
  /\ UNCHANGED <<feedVars, wsm, parse>>

NextPool ==
  \/ Pool_Initialize
  \/ \E t \in Callers : Pool_Acquire(t)
  \/ \E t \in Callers : \E ws \in 1..pool_size : Pool_Release(t, ws)

SpecPool == Init /\ [][NextPool]_vars

\* C40: the available list holds no connection twice and none that a caller
\* holds, and no connection is held by two callers.
C40_PoolExclusive ==
  /\ \A i, j \in 1..Len(pool.available) :
       pool.available[i] = pool.available[j] => i = j
  /\ \A t \in Callers : \A ws \in pool.held[t] : ~InSeq(ws, pool.available)
  /\ \A t, u \in Callers : t # u => pool.held[t] \cap pool.held[u] = {}

====
